---- MODULE Spec2Model ----
(***************************************************************************)
(* prympt: prompts with declared outputs, the XML envelope codec, the      *)
(* Response validation and the self-correcting Prompt.query loop.          *)
(*                                                                         *)
(* Text is a sequence of tokens (strings); concatenating Python strings is *)
(* concatenating token sequences.  Python None is the value NONE.          *)
(* Output objects live in the heap objs (a sequence, the index is the      *)
(* object's identity); a Prompt's outputs list holds indices, so two       *)
(* prompts built from one another share Output objects as they do in the   *)
(* code.  Prompt objects live in the heap prompts.                         *)
(* An operation that can raise returns [err, val]: err.kind = "none" when  *)
(* it returned val, otherwise the exception raised.                        *)
(***************************************************************************)
EXTENDS Integers, Sequences, FiniteSets, TLC

VARIABLES objs, prompts, pc, self, prompt, retries, retry_time, last_error, calls, log, outcome, ret

vars == <<objs, prompts, pc, self, prompt, retries, retry_time, last_error, calls, log, outcome, ret>>

\* ------------------------------------------------------------------ bounds

\* largest retries argument passed to Prompt.query
MaxRetries == 3

\* largest number of Prompt objects alive in the builder specification
MaxPrompts == 3

\* largest number of outputs declared or replied when a Response is built
MaxSlots == 2

\* ------------------------------------------------------- values and errors

NONE == "<None>"

\* str(x) inside an f-string: None prints as None
Str(x) == IF x = NONE THEN "None" ELSE x

NoErr == [kind |-> "none", message |-> <<>>]

Raise(kind, message) == [err |-> [kind |-> kind, message |-> message], val |-> <<>>]

Return(val) == [err |-> NoErr, val |-> val]

Failed(r) == r.err.kind # "none"

\* the classes of the library's error taxonomy, all derived from PrymptError
PrymptErrorKinds == {"PrymptError", "MalformedOutput", "ResponseError", "PromptError", "ConcatenationError", "ReplacementError"}

\* the concatenation of a sequence of token sequences
RECURSIVE Flatten(_)
Flatten(ss) == IF ss = <<>> THEN <<>> ELSE Head(ss) \o Flatten(Tail(ss))

\* "sep".join(parts)
RECURSIVE Join(_, _)
Join(sep, parts) ==
    IF parts = <<>> THEN <<>>
    ELSE IF Len(parts) = 1 THEN parts[1]
    ELSE parts[1] \o sep \o Join(sep, Tail(parts))

\* the string a token sequence stands for: its tokens one after the other
RECURSIVE Chars(_)
Chars(text) == IF text = <<>> THEN "" ELSE text[1] \o Chars(Tail(text))

\* the positions at which the string sub starts in the string whole
Occurrences(whole, sub) ==
    IF Len(sub) = 0 THEN 0..Len(whole)
    ELSE {i \in 0..(Len(whole) - Len(sub)) : SubSeq(whole, i + 1, i + Len(sub)) = sub}

\* needle in text, on the strings the two token sequences stand for:
\* containment of characters, wherever the token boundaries fall
Contains(text, needle) == Occurrences(Chars(text), Chars(needle)) # {}

\* ------------------------------------------------------------ Output slots

OutputTypes == {"str", "int", "float", "bool"}

\* names that pass the identifier-safe check, among the names the model
\* uses; the empty name is accepted (output("") builds a prompt)
IdentifierNames == {"", "a", "b", "color", "__len__", "_Response__outputs"}

\* strings that are Python list literals
ListLiterals == {"[1, 2, 3]", "[\"a sample string\"]"}

\* ast.literal_eval(value_str): the exception it raises, or "none" when the
\* string is a Python literal (a number, a boolean, a list).  A bare name is
\* an expression but no literal: ValueError; the empty string and every text
\* that is no expression (several words, a statement, the placeholder
\* contents) is a SyntaxError
LiteralEval(value_str) ==
    LET NumberLiterals == {"42", "4.2", "42.0", "True"}
        BareNames == {"x", "hello", "red", "sky", "a", "b", "color", "__len__", "_Response__outputs"}
    IN CASE value_str \in NumberLiterals \cup ListLiterals -> "none"
         [] value_str \in BareNames -> "ValueError"
         [] OTHER -> "SyntaxError"

\* parsed_type(ast.literal_eval(value_str)): the literal is evaluated first,
\* then the type is called on it; int and float do not take a list
convert_to_Python_type(value_str, type_str) ==
    IF type_str \notin {"__builtins__", "int", "float", "str", "bool"}
    THEN Raise("ResponseError", <<"Tried to create Output with a non-standard basic Python type: '", type_str, "'">>)
    ELSE IF LiteralEval(value_str) = "SyntaxError"
    THEN Raise("MalformedOutput", <<"Could not cast parameter value '", value_str, "' to suggested type '", type_str, "'">>)
    ELSE IF LiteralEval(value_str) = "ValueError"
    THEN Raise("ValueError", <<"malformed node or string">>)
    ELSE IF type_str = "__builtins__"
    THEN Raise("TypeError", <<"'NoneType' object is not callable">>)
    ELSE IF value_str \in ListLiterals /\ type_str = "int"
    THEN Raise("TypeError", <<"int() argument must be a string, a bytes-like object or a real number, not 'list'">>)
    ELSE IF value_str \in ListLiterals /\ type_str = "float"
    THEN Raise("TypeError", <<"float() argument must be a string or a real number, not 'list'">>)
    ELSE Return(<<type_str, value_str>>)

\* Output(name, description, type, content).  The content of a slot is
\* always a string: a slot built without content holds the empty string,
\* which is not coerced
Output__init__(name, description, type, content) ==
    IF name # NONE /\ name \notin IdentifierNames
    THEN Raise("MalformedOutput", <<"Invalid output name: '", name, "'">>)
    ELSE IF type \notin OutputTypes
    THEN Raise("MalformedOutput", <<"Invalid output type: '", type, "'">>)
    ELSE IF content # "" /\ type # "str" /\ Failed(convert_to_Python_type(content, type))
    THEN convert_to_Python_type(content, type)
    ELSE Return([name |-> name, description |-> description, type |-> type, content |-> content])

\* ------------------------------------------------------------ markup codec

\* one <output ...>content</output> element: the tag carries name,
\* description and type, an absent attribute is NONE, and type is left out
\* when it is the default str; the body is the content, and an empty
\* content leaves the body empty
OutputElement(o) ==
    <<"<output", o.name, o.description, IF o.type = "str" THEN NONE ELSE o.type>>
    \o (IF o.content = "" THEN <<>> ELSE <<o.content>>)
    \o <<"</output>">>

outputs_to_xml(outs) ==
    <<"<outputs>">> \o Flatten([i \in 1..Len(outs) |-> OutputElement(outs[i])]) \o <<"</outputs>">>

\* the elements between positions i and j of text (both excluded), as
\* [ok, slots]: ok is FALSE when the span is not a run of output elements.
\* The content of a slot is the body of its element, the empty string when
\* the body is empty
RECURSIVE ParseElements(_, _, _)
ParseElements(text, i, j) ==
    IF i + 1 >= j THEN [ok |-> TRUE, slots |-> <<>>]
    ELSE IF text[i + 1] # "<output" \/ i + 5 >= j THEN [ok |-> FALSE, slots |-> <<>>]
    ELSE LET hasBody == text[i + 5] # "</output>"
             close == IF hasBody THEN i + 6 ELSE i + 5
             slot == [name |-> text[i + 2], description |-> text[i + 3],
                      type |-> IF text[i + 4] = NONE THEN "str" ELSE text[i + 4],
                      content |-> IF hasBody THEN text[i + 5] ELSE ""]
         IN IF close >= j \/ text[close] # "</output>" THEN [ok |-> FALSE, slots |-> <<>>]
            ELSE LET rest == ParseElements(text, close, j)
                 IN [ok |-> rest.ok, slots |-> <<slot>> \o rest.slots]

\* the position of the </outputs> that closes the <outputs> at position i, 0 if none
ClosingTag(text, i) ==
    LET after == {j \in (i + 1)..Len(text) : text[j] = "</outputs>"}
    IN IF after = {} THEN 0 ELSE CHOOSE j \in after : \A k \in after : j <= k

\* the positions at which a well-formed envelope starts
Envelopes(text) ==
    {i \in 1..Len(text) : /\ text[i] = "<outputs>"
                          /\ ClosingTag(text, i) # 0
                          /\ ParseElements(text, i, ClosingTag(text, i)).ok}

\* Output objects built from parsed slots, in order; the first slot that
\* cannot be constructed raises
RECURSIVE BuildOutputs(_)
BuildOutputs(slots) ==
    IF slots = <<>> THEN Return(<<>>)
    ELSE LET o == Output__init__(slots[1].name, slots[1].description, slots[1].type, slots[1].content)
             rest == BuildOutputs(Tail(slots))
         IN IF Failed(o) THEN o
            ELSE IF Failed(rest) THEN rest
            ELSE Return(<<o.val>> \o rest.val)

\* mutant of xml_to_outputs: the first well-formed envelope wins
FirstWins(text) ==
    IF Envelopes(text) = {} THEN Return(<<>>)
    ELSE LET first == CHOOSE i \in Envelopes(text) : \A k \in Envelopes(text) : i <= k
         IN BuildOutputs(ParseElements(text, first, ClosingTag(text, first)).slots)

\* the slots of the last well-formed envelope of text; none: the empty list
xml_to_outputs(text) ==
    IF Envelopes(text) = {} THEN Return(<<>>)
    ELSE LET last == CHOOSE i \in Envelopes(text) : \A k \in Envelopes(text) : k <= i
         IN BuildOutputs(ParseElements(text, last, ClosingTag(text, last)).slots)

\* ------------------------------------------------------------------ tools

\* Tool(callable): the tool's name is the callable's __name__
Tool(callable) == [callable |-> callable.id, name |-> callable.name]

\* the elements a tools argument can hold: a Tool (dict.values()) or a
\* (name, Tool) pair (dict.items())
ToolItem(t) == [tag |-> "Tool", tool |-> t]

TupleItem(t) == [tag |-> "tuple", tool |-> t]

values(tools) == [i \in 1..Len(tools) |-> ToolItem(tools[i])]

items(tools) == [i \in 1..Len(tools) |-> TupleItem(tools[i])]

keys(tools) == {tools[i].name : i \in 1..Len(tools)}

\* { tool.name: tool for tool in tools }: a dict keeps the position of a
\* key's first insertion and the value of its last
RECURSIVE DictOfTools(_, _)
DictOfTools(acc, tools) ==
    IF tools = <<>> THEN acc
    ELSE LET t == tools[1].tool
             at == {i \in 1..Len(acc) : acc[i].name = t.name}
         IN DictOfTools(IF at = {} THEN Append(acc, t)
                        ELSE [i \in 1..Len(acc) |-> IF i \in at THEN t ELSE acc[i]],
                        Tail(tools))

\* ---------------------------------------------------------------- prompts

\* the names of the outputs held at ids, read from heap h
NamesOf(h, ids) == [i \in 1..Len(ids) |-> h[ids[i]].name]

\* the duplicate-name errors of Prompt.__init__, one per output whose name
\* was seen before, naming the first position that holds the name
DuplicateErrors(names) ==
    LET dup == {i \in 1..Len(names) : \E j \in 1..(i - 1) : names[j] = names[i]}
        first(i) == CHOOSE j \in 1..i : names[j] = names[i] /\ \A k \in 1..(j - 1) : names[k] # names[i]
        line(i) == <<"Found outputs at positions ", ToString(first(i) - 1), ", ", ToString(i - 1),
                     " with same name: '", Str(names[i]), "'">>
        RECURSIVE collect(_)
        collect(i) == IF i > Len(names) THEN <<>>
                      ELSE (IF i \in dup THEN <<line(i)>> ELSE <<>>) \o collect(i + 1)
    IN collect(1)

\* Prompt(template, outputs, tools) with the Output objects in heap h
Prompt__init__(template, outputs, tools, h) ==
    IF \E i \in 1..Len(tools) : tools[i].tag # "Tool"
    THEN Raise("AttributeError", <<"'tuple' object has no attribute 'name'">>)
    ELSE IF DuplicateErrors(NamesOf(h, outputs)) # <<>>
    THEN Raise("PromptError", Join(<<"\n">>, DuplicateErrors(NamesOf(h, outputs))))
    ELSE Return([template |-> template, outputs |-> outputs, tools |-> DictOfTools(<<>>, tools)])

\* the variable a template token references, NONE for plain text and tags
JinjaVariable(token) ==
    CASE token = "{{ x }}" -> "x"
      [] token = "{{ y }}" -> "y"
      [] token = "{{ i }}" -> "i"
      [] OTHER -> NONE

\* the name a for tag iterates over, NONE for any other token; the loop
\* target of the model's for tags is i
ForIter(token) ==
    CASE token = "{% for i in y %}" -> "y"
      [] token = "{% for i in x %}" -> "x"
      [] OTHER -> NONE

\* env.parse accepts the template: every for tag is closed by its endfor, an
\* else tag stands inside a for, at most one per for, and nothing else is a
\* block tag.  open holds one flag per for that is open: its else was seen
RECURSIVE ParsesFrom(_, _, _)
ParsesFrom(template_source, k, open) ==
    IF k > Len(template_source) THEN open = <<>>
    ELSE LET token == template_source[k]
         IN IF ForIter(token) # NONE THEN ParsesFrom(template_source, k + 1, Append(open, FALSE))
            ELSE IF token = "{% endfor %}"
            THEN open # <<>> /\ ParsesFrom(template_source, k + 1, SubSeq(open, 1, Len(open) - 1))
            ELSE IF token = "{% else %}"
            THEN open # <<>> /\ ~open[Len(open)]
                 /\ ParsesFrom(template_source, k + 1, [open EXCEPT ![Len(open)] = TRUE])
            ELSE ParsesFrom(template_source, k + 1, open)

Parses(template_source) == ParsesFrom(template_source, 1, <<>>)

\* mutant of VisitFrom: the visitor descends into the loops (generic_visit
\* on a For node): target, body and else-clause are visited like the rest
RECURSIVE VisitIntoLoops(_, _, _, _)
VisitIntoLoops(template_source, k, depth, variables) ==
    IF k > Len(template_source) THEN variables
    ELSE LET token == template_source[k]
             name == IF ForIter(token) # NONE THEN ForIter(token) ELSE JinjaVariable(token)
             seen == \E m \in 1..Len(variables) : variables[m] = name
         IN VisitIntoLoops(template_source, k + 1, depth,
                           (IF ForIter(token) # NONE /\ \A m \in 1..Len(variables) : variables[m] # "i"
                            THEN Append(variables, "i") ELSE variables)
                           \o (IF name = NONE \/ seen THEN <<>> ELSE <<name>>))

\* OrderedVariableCollector over the nodes from token k on: visit_Name
\* appends a name not yet collected; visit_For visits the iterated
\* expression only and skips target, body and else-clause, the loops nested
\* in them included.  depth is the number of loops open at token k
RECURSIVE VisitFrom(_, _, _, _)
VisitFrom(template_source, k, depth, variables) ==
    IF k > Len(template_source) THEN variables
    ELSE LET token == template_source[k]
             name == IF ForIter(token) # NONE THEN ForIter(token) ELSE JinjaVariable(token)
             seen == \E m \in 1..Len(variables) : variables[m] = name
         IN IF depth > 0
            THEN VisitFrom(template_source, k + 1,
                           IF ForIter(token) # NONE THEN depth + 1 ELSE IF token = "{% endfor %}" THEN depth - 1 ELSE depth,
                           variables)
            ELSE VisitFrom(template_source, k + 1,
                           IF ForIter(token) # NONE THEN 1 ELSE 0,
                           IF name = NONE \/ seen THEN variables ELSE Append(variables, name))

\* _extract_jinja_variables: [err, val], TemplateSyntaxError for a template
\* that does not parse
extract_jinja_variables(template_source) ==
    IF ~Parses(template_source) THEN Raise("TemplateSyntaxError", <<"Encountered unknown tag">>)
    ELSE Return(VisitFrom(template_source, 1, 0, <<>>))

\* mutant of get_variables: the names as a sorted set
SortedVariables(prm) ==
    SelectSeq(<<"i", "x", "y">>, LAMBDA v : \E k \in 1..Len(prm.template) : JinjaVariable(prm.template[k]) = v \/ ForIter(prm.template[k]) = v)

\* p.get_variables(): a template with a syntax error has no variables (and
\* a warning is issued)
get_variables(prm) ==
    IF Failed(extract_jinja_variables(prm.template)) THEN <<>>
    ELSE extract_jinja_variables(prm.template).val

\* the items of a bound value when a for tag iterates over it: the
\* characters of the string (the strings the model binds; any other value
\* is a string of one character)
Iterate(value) ==
    CASE value = "" -> <<>>
      [] value = "abc" -> <<"a", "b", "c">>
      [] value = "sky" -> <<"s", "k", "y">>
      [] value = "sea" -> <<"s", "e", "a">>
      [] value = "sun" -> <<"s", "u", "n">>
      [] value = "kx" -> <<"k", "x">>
      [] value = "ky" -> <<"k", "y">>
      [] value = "{{ y }}" -> <<"{", "{", " ", "y", " ", "}", "}">>
      [] value = "{% endfor %}" -> <<"{", "%", " ", "e", "n", "d", "f", "o", "r", " ", "%", "}">>
      [] OTHER -> <<value>>

\* the number of for tags less the number of endfor tags among tokens lo..hi
Nesting(src, lo, hi) ==
    Cardinality({q \in lo..hi : ForIter(src[q]) # NONE}) - Cardinality({q \in lo..hi : src[q] = "{% endfor %}"})

\* the endfor that closes the for tag at token k of a template that parses
MatchingEndfor(src, k) ==
    CHOOSE e \in (k + 1)..Len(src) :
        /\ src[e] = "{% endfor %}" /\ Nesting(src, k + 1, e - 1) = 0
        /\ \A q \in (k + 1)..(e - 1) : ~(src[q] = "{% endfor %}" /\ Nesting(src, k + 1, q - 1) = 0)

\* the else tag of the for tag at token k closed at token e, 0 when it has none
ElseOf(src, k, e) ==
    LET at == {m \in (k + 1)..(e - 1) : src[m] = "{% else %}" /\ Nesting(src, k + 1, m - 1) = 0}
    IN IF at = {} THEN 0 ELSE CHOOSE m \in at : TRUE

\* two rendered parts in a row: the first failure is the failure of the whole
Rendered(first, rest) ==
    IF Failed(first) THEN first ELSE IF Failed(rest) THEN rest ELSE Return(first.val \o rest.val)

\* the rendering of tokens lo..hi of src with the variables of env: text is
\* copied, a variable is replaced by its value, a for tag renders its body
\* once per item of the value it iterates over with the loop variable i
\* bound to the item, or its else-clause when there is no item; a variable
\* without a value is an error (StrictUndefined)
RECURSIVE RenderRange(_, _, _, _)
RECURSIVE RenderItems(_, _, _, _, _)
RenderRange(src, lo, hi, env) ==
    IF lo > hi THEN Return(<<>>)
    ELSE LET token == src[lo]
             undefined(name) == Raise("UndefinedError", <<"'", name, "' is undefined">>)
         IN IF ForIter(token) # NONE
            THEN LET e == MatchingEndfor(src, lo)
                     m == ElseOf(src, lo, e)
                 IN Rendered(IF ForIter(token) \notin DOMAIN env THEN undefined(ForIter(token))
                             ELSE IF Iterate(env[ForIter(token)]) # <<>>
                             THEN RenderItems(src, lo + 1, (IF m = 0 THEN e ELSE m) - 1, env, Iterate(env[ForIter(token)]))
                             ELSE IF m = 0 THEN Return(<<>>)
                             ELSE RenderRange(src, m + 1, e - 1, env),
                             RenderRange(src, e + 1, hi, env))
            ELSE Rendered(IF JinjaVariable(token) = NONE THEN Return(<<token>>)
                          ELSE IF JinjaVariable(token) \in DOMAIN env THEN Return(<<env[JinjaVariable(token)]>>)
                          ELSE undefined(JinjaVariable(token)),
                          RenderRange(src, lo + 1, hi, env))

\* the loop body lo..hi rendered once per item, i bound to the item
RenderItems(src, lo, hi, env, its) ==
    IF its = <<>> THEN Return(<<>>)
    ELSE Rendered(RenderRange(src, lo, hi, [n \in DOMAIN env \cup {"i"} |-> IF n = "i" THEN its[1] ELSE env[n]]),
                  RenderItems(src, lo, hi, env, Tail(its)))

\* _jinja_env.from_string(template).render(**kwargs): a template that does
\* not parse is a syntax error; the template loses one trailing newline
jinja_substitution(template, kwargs) ==
    LET src == IF template # <<>> /\ template[Len(template)] = "\n"
               THEN SubSeq(template, 1, Len(template) - 1) ELSE template
    IN IF ~Parses(template) THEN Raise("TemplateSyntaxError", <<"Encountered unknown tag">>)
       ELSE RenderRange(src, 1, Len(src), kwargs)

\* p(*args, **kwargs)
Prompt__call__(prm, args, kwargs, h) ==
    LET variable_names == get_variables(prm)
        n == IF Len(args) < Len(variable_names) THEN Len(args) ELSE Len(variable_names)
        clash == {i \in 1..n : variable_names[i] \in DOMAIN kwargs}
        merged == [k \in DOMAIN kwargs \cup {variable_names[i] : i \in 1..n} |->
                     IF \E i \in 1..n : variable_names[i] = k
                     THEN args[CHOOSE i \in 1..n : variable_names[i] = k] ELSE kwargs[k]]
    IN IF Len(args) > Len(variable_names)
       THEN Raise("ReplacementError", <<"Provided ", ToString(Len(args)), " positional arguments, but prompt template has only ",
                                        ToString(Len(variable_names)), " variables">>)
       ELSE IF clash # {}
       THEN Raise("ReplacementError", <<"Got multiple values for template ", "variable '",
                                        variable_names[CHOOSE i \in clash : \A k \in clash : i <= k], "'">>)
       ELSE IF Failed(jinja_substitution(prm.template, merged))
       THEN jinja_substitution(prm.template, merged)
       ELSE Prompt__init__(jinja_substitution(prm.template, merged).val, prm.outputs, items(prm.tools), h)

\* the names of the model's callables in sorted order
SortedToolNames == <<"f", "g">>

\* mutant of OverlappingTools: two tools overlap when they are the same tool,
\* not when they have the same name
OverlappingSameTool(mine, theirs) ==
    SelectSeq(SortedToolNames, LAMBDA n : \E i \in 1..Len(mine), j \in 1..Len(theirs) : mine[i].name = n /\ mine[i] = theirs[j])

\* sorted(self.tools.keys() & other_prompt.tools.keys())
OverlappingTools(mine, theirs) ==
    SelectSeq(SortedToolNames, LAMBDA n : n \in keys(mine) \cap keys(theirs))

\* p + other: other is [tag, template, outputs, tools], tag "str" for a
\* string (its text in template), "Prompt" for a prompt, anything else for
\* another object
Prompt__add__(prm, other, h) ==
    LET other_prompt == IF other.tag = "str" THEN Prompt__init__(other.template, <<>>, <<>>, h).val
                        ELSE [template |-> other.template, outputs |-> other.outputs, tools |-> other.tools]
        overlapping_tools == OverlappingTools(prm.tools, other_prompt.tools)
    IN IF other.tag \notin {"str", "Prompt"}
       THEN Raise("ConcatenationError", <<"Prompt error: trying to add Prompt to object other than str|Prompt for __add__">>)
       ELSE IF overlapping_tools # <<>>
       THEN Raise("ConcatenationError", <<"Trying to concatenate two prompts with overlapping tools: ">>
                                        \o Join(<<", ">>, [i \in 1..Len(overlapping_tools) |-> <<overlapping_tools[i]>>]))
       ELSE Prompt__init__(prm.template \o <<"\n">> \o other_prompt.template,
                           prm.outputs \o other_prompt.outputs,
                           values(DictOfTools(prm.tools, values(other_prompt.tools))), h)

AsOperand(prm) == [tag |-> "Prompt", template |-> prm.template, outputs |-> prm.outputs, tools |-> prm.tools]

StrOperand(text) == [tag |-> "str", template |-> text, outputs |-> <<>>, tools |-> <<>>]

\* p.error(e)
Prompt_error(prm, error, h) ==
    Prompt__add__(prm, StrOperand(<<"\n\nMake sure to avoid the following error in your response: ">> \o error.message \o <<"\n">>), h)

\* mutant of deepcopy: the list is used as it is, no copy is made
ShallowCopy(h, ids) == [heap |-> h, ids |-> ids]

\* copy.deepcopy(outputs): fresh Output objects at the end of the heap
deepcopy(h, ids) ==
    [heap |-> h \o [k \in 1..Len(ids) |-> h[ids[k]]], ids |-> [k \in 1..Len(ids) |-> Len(h) + k]]

\* the placeholder content __str__ writes into an output
ContentIndication(o) ==
    IF o.name # NONE /\ o.name # ""
    THEN "... value for output '" \o o.name \o "' goes here ..."
    ELSE "... value for this output goes here ..."

\* str(p): [text, heap, warning]; the placeholder contents are written into
\* the working copies, which are dropped when __str__ returns; warning lists
\* the unresolved variables, sorted (empty: no warning)
Prompt__str__(prm, h) ==
    LET work == deepcopy(h, prm.outputs)
        marked == [k \in 1..Len(work.heap) |->
                     IF \E i \in 1..Len(work.ids) : work.ids[i] = k
                     THEN [work.heap[k] EXCEPT !.content = ContentIndication(work.heap[k])]
                     ELSE work.heap[k]]
        xml == outputs_to_xml([i \in 1..Len(work.ids) |-> marked[work.ids[i]]])
    IN [text |-> prm.template \o (IF prm.outputs # <<>>
                                  THEN <<"\nProvide your response inside an XML such as this:\n">> \o xml
                                  ELSE <<>>),
        heap |-> SubSeq(marked, 1, Len(h)),
        warning |-> SelectSeq(<<"i", "x", "y">>, LAMBDA v : \E i \in 1..Len(get_variables(prm)) : get_variables(prm)[i] = v)]

\* p.output(name, description, type, content): [err, val, heap]
Prompt_output(prm, name, description, type, content, h) ==
    LET o == Output__init__(name, description, type, content)
        h2 == Append(h, o.val)
        made == Prompt__init__(prm.template, Append(prm.outputs, Len(h2)), items(prm.tools), h2)
    IN IF Failed(o) THEN [err |-> o.err, val |-> <<>>, heap |-> h]
       ELSE IF Failed(made) THEN [err |-> made.err, val |-> <<>>, heap |-> h]
       ELSE [err |-> NoErr, val |-> made.val, heap |-> h2]

\* p.tool(callable)
Prompt_tool(prm, callable, h) ==
    IF Tool(callable).name \in keys(prm.tools)
    THEN Raise("PromptError", <<"Tool '", Tool(callable).name, "' already exists in prompt">>)
    ELSE Prompt__init__(prm.template, prm.outputs, Append(items(prm.tools), ToolItem(Tool(callable))), h)

\* --------------------------------------------------------------- response

\* the attributes a Response object has before the loop of lines 36-38 runs,
\* among the names the model uses: its methods and its two private fields
ResponseAttributes == {"__len__", "_Response__outputs"}

\* mutant of AttributesOf: setattr without the hasattr test, a later output
\* of a name overrides the earlier one
AttributesLastWins(outputs) ==
    SelectSeq([i \in 1..Len(outputs) |-> [name |-> outputs[i].name, content |-> outputs[i].content, first |->
                  outputs[i].name # NONE /\ outputs[i].name # "" /\ \A j \in (i + 1)..Len(outputs) : outputs[j].name # outputs[i].name]],
              LAMBDA a : a.first)

\* the attributes set on a Response: one (name, content) pair per named
\* output whose name is not an attribute yet (hasattr), so the first output
\* of a name only, and none for a name the object has of its own
AttributesOf(outputs) ==
    SelectSeq([i \in 1..Len(outputs) |-> [name |-> outputs[i].name, content |-> outputs[i].content, first |->
                  /\ outputs[i].name # NONE /\ outputs[i].name # ""
                  /\ outputs[i].name \notin ResponseAttributes
                  /\ \A j \in 1..(i - 1) : outputs[j].name # outputs[i].name]],
              LAMBDA a : a.first)

\* mutant of MismatchErrors: the comparison stops at the first mismatch
MismatchFirstOnly(defined, responded, index) ==
    LET bad == {i \in 1..Len(defined) : i <= Len(responded) /\ (defined[i].name # responded[i].name \/ defined[i].type # responded[i].type)}
        i == CHOOSE x \in bad : \A y \in bad : x <= y
    IN IF bad = {} THEN <<>>
       ELSE IF defined[i].name # responded[i].name
       THEN << <<"Name for output at position ", ToString(i - 1), " ('", Str(defined[i].name),
                 "') differs from the one provided by LLM ('", Str(responded[i].name), "')", "\n">> >>
       ELSE << <<"Type for output at position ", ToString(i - 1), " ('", Str(defined[i].type),
                 "') differs from the one provided by LLM ('", Str(responded[i].type), "')", "\n">> >>

\* the name and type mismatches between declared and responded outputs, one
\* message per mismatch, from position index (0-based) on
RECURSIVE MismatchErrors(_, _, _)
MismatchErrors(defined, responded, index) ==
    IF index >= Len(defined) \/ index >= Len(responded) THEN <<>>
    ELSE (IF defined[index + 1].name # responded[index + 1].name
          THEN << <<"Name for output at position ", ToString(index), " ('", Str(defined[index + 1].name),
                    "') differs from the one provided by LLM ('", Str(responded[index + 1].name), "')", "\n">> >>
          ELSE <<>>)
         \o (IF defined[index + 1].type # responded[index + 1].type
             THEN << <<"Type for output at position ", ToString(index), " ('", Str(defined[index + 1].type),
                       "') differs from the one provided by LLM ('", Str(responded[index + 1].type), "')", "\n">> >>
             ELSE <<>>)
         \o MismatchErrors(defined, responded, index + 1)

\* mutant of Validates: the reply is validated whatever the prompt declares
ValidatesAlways(prm) == TRUE

\* mutant of CountMismatch: only a reply with too few outputs is rejected
CountTooFew(n, m) == m < n

\* if prompt.outputs: a prompt that declares outputs is validated
Validates(prm) == prm.outputs # <<>>

\* len(prompt.outputs) != self.__len__()
CountMismatch(n, m) == n # m

\* Response(response_text, prompt), the prompt's Output objects in heap h
Response__init__(response_text, prm, h) ==
    LET decoded == xml_to_outputs(response_text)
        defined == [i \in 1..Len(prm.outputs) |-> h[prm.outputs[i]]]
        new_errors == MismatchErrors(defined, decoded.val, 0)
    IN IF Failed(decoded) THEN decoded
       ELSE IF Validates(prm) /\ CountMismatch(Len(prm.outputs), Len(decoded.val))
       THEN Raise("ResponseError", <<"Expected ", ToString(Len(prm.outputs)), " outputs in LLM response, but got ",
                                     ToString(Len(decoded.val))>>)
       ELSE IF Validates(prm) /\ new_errors # <<>>
       THEN Raise("ResponseError", Join(<<"\n">>, new_errors))
       ELSE Return([raw |-> response_text, outputs |-> decoded.val, attrs |-> AttributesOf(decoded.val)])

\* response.<name>: the attribute set from an output, else the object's own
\* attribute, else AttributeError
Response__getattr__(response, name) ==
    IF \E k \in 1..Len(response.attrs) : response.attrs[k].name = name
    THEN Return(response.attrs[CHOOSE k \in 1..Len(response.attrs) : response.attrs[k].name = name].content)
    ELSE IF name = "__len__" THEN Return("<bound method Response.__len__>")
    ELSE IF name = "_Response__outputs" THEN Return(response.outputs)
    ELSE Raise("AttributeError", <<"'Response' object has no attribute '", name, "'">>)

\* name in response
Response__contains__(response, name) == \E k \in 1..Len(response.outputs) : response.outputs[k].name = name

\* len(response)
Response__len__(response) == Len(response.outputs)

\* response[index], 0 <= index < len(response)
Response__getitem__(response, index) == response.outputs[index + 1]

\* ------------------------------------------------------------ Prompt.query

\* mutant of LoopContinues: one attempt too many
LoopOneMore(k, n) == k <= n

\* mutant of Caught: except ResponseError
CaughtResponseErrorOnly(err) == err.kind = "ResponseError"

\* mutant of Caught: except Exception
CaughtAnyException(err) == TRUE

\* mutant of Corrected: the correction is appended to the prompt queried,
\* not to the prompt of the failed attempt
CorrectedFromSelf(prm, e, h) == Prompt_error(prompts[self], e, h)

\* mutant of Remember: the first error is kept
RememberFirst(previous, e) == IF previous.kind = "none" THEN e ELSE previous

\* for retry_time in range(retries)
LoopContinues(k, n) == k < n

\* except PrymptError
Caught(err) == err.kind \in PrymptErrorKinds

\* prompt = prompt.error(e)
Corrected(prm, e, h) == Prompt_error(prm, e, h)

\* last_error = e
Remember(previous, e) == e

\* raise last_error: raising None is a TypeError
RaiseLast(error) ==
    IF error.kind = "none" THEN [kind |-> "TypeError", message |-> <<"exceptions must derive from BaseException">>]
    ELSE error

\* the replies of the completion backend
Slot(name, type, content) == [name |-> name, description |-> NONE, type |-> type, content |-> content]

Replies ==
    { <<"This is not the answer you're looking for">>,
      <<"Here it is:">> \o outputs_to_xml(<<Slot("a", "str", "hello")>>),
      outputs_to_xml(<<Slot("b", "int", "42")>>),
      outputs_to_xml(<<Slot("a", "int", "x y")>>),
      outputs_to_xml(<<Slot("a", "int", "x")>>),
      outputs_to_xml(<<Slot("b", "int", "42")>>) \o <<"or rather", "~~~xml">> \o outputs_to_xml(<<Slot("a", "str", "hello")>>) \o <<"~~~">>,
      outputs_to_xml(<<Slot("a", "str", "hello"), Slot("b", "int", "42")>>) }

\* the errors the completion backend raises itself
BackendErrors ==
    { [kind |-> "BackendError", message |-> <<"service unavailable">>],
      [kind |-> "ResponseError", message |-> <<"raised by the backend">>] }

\* what one call of llm_completion does: return a reply or raise
BackendBehaviours ==
    {[raises |-> FALSE, reply |-> r, err |-> NoErr] : r \in Replies}
    \cup {[raises |-> TRUE, reply |-> <<>>, err |-> e] : e \in BackendErrors}

NoOutcome == [kind |-> "none", err |-> NoErr, val |-> <<>>]

NoRet == [op |-> "none", on |-> 0, err |-> NoErr, id |-> 0, text |-> <<>>]

Idle == pc \in {"idle", "returned", "raised"}

\* p.query(llm_completion, retries) is entered on prompt i
QueryStart(i, n) ==
    /\ Idle
    /\ pc' = "loop"
    /\ self' = i
    /\ prompt' = prompts[i]
    /\ retries' = n
    /\ retry_time' = 0
    /\ last_error' = NoErr
    /\ calls' = 0
    /\ log' = <<>>
    /\ outcome' = NoOutcome
    /\ ret' = NoRet
    /\ UNCHANGED <<objs, prompts>>

\* one pass of the loop body: render, call the backend, build the Response
AttemptWith(behaviours) ==
    /\ pc = "loop"
    /\ LoopContinues(retry_time, retries)
    /\ \E b \in behaviours :
         LET s == Prompt__str__(prompt, objs)
             r == IF b.raises THEN [err |-> b.err, val |-> <<>>] ELSE Response__init__(b.reply, prompt, s.heap)
             c == Corrected(prompt, r.err, s.heap)
         IN /\ objs' = s.heap
            /\ calls' = calls + 1
            /\ log' = Append(log, [sent |-> s.text, behaviour |-> b, err |-> r.err, prompt |-> prompt])
            /\ IF ~Failed(r)
               THEN /\ pc' = "returned"
                    /\ outcome' = [kind |-> "return", err |-> NoErr, val |-> r.val]
                    /\ UNCHANGED <<prompt, last_error, retry_time>>
               ELSE IF Caught(r.err) /\ ~Failed(c)
               THEN /\ pc' = "loop"
                    /\ prompt' = c.val
                    /\ last_error' = Remember(last_error, r.err)
                    /\ retry_time' = retry_time + 1
                    /\ UNCHANGED outcome
               ELSE /\ pc' = "raised"
                    /\ outcome' = [kind |-> "raise", err |-> IF Caught(r.err) THEN c.err ELSE r.err, val |-> <<>>]
                    /\ UNCHANGED <<prompt, last_error, retry_time>>
    /\ UNCHANGED <<prompts, self, retries, ret>>

Attempt == AttemptWith(BackendBehaviours)

\* the loop is over without a return: raise last_error
Exhausted ==
    /\ pc = "loop"
    /\ ~LoopContinues(retry_time, retries)
    /\ pc' = "raised"
    /\ outcome' = [kind |-> "raise", err |-> RaiseLast(last_error), val |-> <<>>]
    /\ UNCHANGED <<objs, prompts, self, prompt, retries, retry_time, last_error, calls, log, ret>>

\* mutant of StartFrom: the working prompt of the last query on the same
\* prompt is taken up again
StartFromLastWorkingPrompt(i) == IF self = i /\ prompt # <<>> THEN prompt ELSE prompts[i]

\* prompt, last_error = self, None: the working prompt of a query starts as
\* the prompt queried
StartFrom(i) == prompts[i]

\* p.query(llm_completion, retries) is entered again on the prompt whose
\* query has just ended; ret keeps how that query ended and the text of its
\* first attempt (empty: it made no attempt)
QueryAgain ==
    /\ pc \in {"returned", "raised"}
    /\ ret.op = "none"
    /\ \E n \in 0..MaxRetries : retries' = n
    /\ pc' = "loop"
    /\ prompt' = StartFrom(self)
    /\ retry_time' = 0
    /\ last_error' = NoErr
    /\ calls' = 0
    /\ log' = <<>>
    /\ outcome' = NoOutcome
    /\ ret' = [op |-> "query", on |-> self, err |-> outcome.err, id |-> 0,
               text |-> IF log = <<>> THEN <<>> ELSE log[1].sent]
    /\ UNCHANGED <<objs, prompts, self>>

\* ------------------------------------------------------ the prompts queried

DeclaredOutputs ==
    { <<>>,
      <<Slot("a", "str", "")>>,
      <<Slot("b", "int", "")>>,
      <<Slot("a", "str", ""), Slot("b", "int", "42")>> }

Callables == { [id |-> 1, name |-> "f"], [id |-> 2, name |-> "g"], [id |-> 3, name |-> "f"] }

DeclaredTools == { <<>>, <<Tool([id |-> 1, name |-> "f"])>> }

Templates == { <<"Answer to everything">>, <<"Answer to ", "{{ x }}">> }

\* one Prompt built by the constructor from freshly constructed Outputs
InitPrompt ==
    \E d \in DeclaredOutputs, t \in DeclaredTools, b \in Templates :
        /\ objs = d
        /\ prompts = <<Prompt__init__(b, [i \in 1..Len(d) |-> i], values(t), d).val>>

InitLocals ==
    /\ pc = "idle"
    /\ self = 0
    /\ prompt = <<>>
    /\ retries = 0
    /\ retry_time = 0
    /\ last_error = NoErr
    /\ calls = 0
    /\ log = <<>>
    /\ outcome = NoOutcome
    /\ ret = NoRet

Init == InitPrompt /\ InitLocals

Query == \E i \in 1..Len(prompts), n \in 0..MaxRetries : QueryStart(i, n)

Next == Query \/ Attempt \/ Exhausted

Spec == Init /\ [][Next]_vars

\* ------------------------------------------- building a Response directly

SlotNames == {"a", "b", NONE}

SlotTypes == {"str", "int"}

\* the declared outputs of a prompt: up to MaxSlots, names pairwise distinct
DeclaredSlotSeqs ==
    {d \in UNION {[1..n -> {Slot(nm, ty, "") : nm \in SlotNames, ty \in SlotTypes}] : n \in 0..MaxSlots} :
        \A i, j \in 1..Len(d) : i # j => d[i].name # d[j].name}

\* the slots of a reply: any names and types, the content a literal of the type
RepliedSlotSeqs ==
    UNION {[1..n -> {Slot(nm, ty, IF ty = "int" THEN "42" ELSE "hello") : nm \in SlotNames \cup {"__len__"}, ty \in SlotTypes}] : n \in 0..MaxSlots}

ResponseTexts ==
    {<<"no envelope here">>} \cup {<<"Here it is:">> \o outputs_to_xml(r) : r \in RepliedSlotSeqs}

InitDeclared ==
    \E d \in DeclaredSlotSeqs :
        /\ objs = d
        /\ prompts = <<Prompt__init__(<<"Answer to everything">>, [i \in 1..Len(d) |-> i], <<>>, d).val>>

\* Response(text, prompts[1])
Construct ==
    /\ pc = "idle"
    /\ \E text \in ResponseTexts :
         LET r == Response__init__(text, prompts[1], objs)
         IN /\ log' = <<[sent |-> <<>>, behaviour |-> [raises |-> FALSE, reply |-> text, err |-> NoErr], err |-> r.err, prompt |-> prompts[1]]>>
            /\ outcome' = [kind |-> IF Failed(r) THEN "raise" ELSE "return", err |-> r.err, val |-> r.val]
    /\ pc' = "constructed"
    /\ UNCHANGED <<objs, prompts, self, prompt, retries, retry_time, last_error, calls, ret>>

InitResp == InitDeclared /\ InitLocals

\* the names looked up on a Response
LookupNames == {"a", "b", "color", "__len__"}

\* getattr(response, name), name in response, len(response) and response[k]
\* on the Response that was built
Lookup ==
    /\ pc = "constructed"
    /\ outcome.kind = "return"
    /\ pc' = "looked"
    /\ \E name \in LookupNames :
         ret' = [op |-> "lookup", name |-> name,
                 attr |-> Response__getattr__(outcome.val, name),
                 contains |-> Response__contains__(outcome.val, name),
                 len |-> Response__len__(outcome.val),
                 items |-> [k \in 1..Response__len__(outcome.val) |-> Response__getitem__(outcome.val, k - 1)]]
    /\ UNCHANGED <<objs, prompts, self, prompt, retries, retry_time, last_error, calls, log, outcome>>

NextResp == Construct \/ Lookup

SpecResp == InitResp /\ [][NextResp]_vars

\* ------------------------------------------------- the builder operations

\* the call frame of a finished query is gone when the caller goes on
ResetLocals ==
    /\ pc' = "idle"
    /\ self' = 0
    /\ prompt' = <<>>
    /\ retries' = 0
    /\ retry_time' = 0
    /\ last_error' = NoErr
    /\ calls' = 0
    /\ log' = <<>>
    /\ outcome' = NoOutcome

\* a builder operation op on prompt i ended as r = [err, val], leaving the
\* Output heap h: a Prompt returned is a new object
Built(op, i, r, h) ==
    /\ Idle
    /\ Len(prompts) < MaxPrompts
    /\ IF Failed(r)
       THEN /\ ret' = [op |-> op, on |-> i, err |-> r.err, id |-> 0, text |-> <<>>]
            /\ UNCHANGED <<objs, prompts>>
       ELSE /\ ret' = [op |-> op, on |-> i, err |-> NoErr, id |-> Len(prompts) + 1, text |-> <<>>]
            /\ objs' = h
            /\ prompts' = Append(prompts, r.val)
    /\ ResetLocals

\* the arguments of output(): name, description, type, content
OutputArguments ==
    { <<"a", NONE, "str", "">>, <<"b", "a number", "int", "42">>, <<"python code", NONE, "int", "x y">>, <<"", NONE, "str", "">> }

OpOutput ==
    \E i \in 1..Len(prompts), a \in OutputArguments :
        LET r == Prompt_output(prompts[i], a[1], a[2], a[3], a[4], objs)
        IN Built("output", i, [err |-> r.err, val |-> r.val], r.heap)

OpTool ==
    \E i \in 1..Len(prompts), c \in {x \in Callables : x.id <= 2} :
        Built("tool", i, Prompt_tool(prompts[i], c, objs), objs)

OpAdd ==
    \E i \in 1..Len(prompts) :
        \E other \in {AsOperand(prompts[j]) : j \in 1..Len(prompts)}
                     \cup {StrOperand(<<"Do it nicely, please">>), [tag |-> "None", template |-> <<>>, outputs |-> <<>>, tools |-> <<>>]} :
            Built("add", i, Prompt__add__(prompts[i], other, objs), objs)

OpCall ==
    \E i \in 1..Len(prompts) :
        \E a \in { [args |-> <<>>, kwargs |-> <<>>], [args |-> <<"sky">>, kwargs |-> <<>>],
                    [args |-> <<"sky">>, kwargs |-> [k \in {"x"} |-> "sun"]], [args |-> <<"sky", "sea">>, kwargs |-> <<>>] } :
            Built("call", i, Prompt__call__(prompts[i], a.args, a.kwargs, objs), objs)

OpError ==
    \E i \in 1..Len(prompts), e \in {x \in BackendErrors : x.kind = "ResponseError"} :
        Built("error", i, Prompt_error(prompts[i], e, objs), objs)

\* str(p) / p.to_string()
OpStr ==
    \E i \in 1..Len(prompts) :
        LET s == Prompt__str__(prompts[i], objs)
        IN /\ Idle
           /\ ret' = [op |-> "str", on |-> i, err |-> NoErr, id |-> 0, text |-> s.text]
           /\ objs' = s.heap
           /\ UNCHANGED prompts
           /\ ResetLocals

\* the backend of the queries made between builder operations
BuilderBackendBehaviours ==
    { [raises |-> FALSE, reply |-> <<"This is not the answer you're looking for">>, err |-> NoErr],
      [raises |-> FALSE, reply |-> <<"Here it is:">> \o outputs_to_xml(<<Slot("a", "str", "hello")>>), err |-> NoErr] }

BuilderAttempt == AttemptWith(BuilderBackendBehaviours)

BuilderPrompts ==
    { [outputs |-> <<>>, tools |-> <<>>, template |-> <<"Answer to ", "{{ x }}">>],
      [outputs |-> <<Slot("a", "str", "")>>, tools |-> <<Tool([id |-> 1, name |-> "f"])>>, template |-> <<"Answer to everything">>] }

InitBuild ==
    /\ \E p \in BuilderPrompts :
         /\ objs = p.outputs
         /\ prompts = <<Prompt__init__(p.template, [i \in 1..Len(p.outputs) |-> i], values(p.tools), p.outputs).val>>
    /\ InitLocals

NextBuild == OpOutput \/ OpTool \/ OpAdd \/ OpCall \/ OpError \/ OpStr \/ Query \/ BuilderAttempt \/ Exhausted

SpecBuild == InitBuild /\ [][NextBuild]_vars

\* the backend of two queries in a row: a reply without outputs, a reply
\* that declares a, a reply whose content is no literal of its type
TwiceBackendBehaviours ==
    BuilderBackendBehaviours
    \cup { [raises |-> FALSE, reply |-> outputs_to_xml(<<Slot("a", "int", "x y")>>), err |-> NoErr] }

TwiceAttempt == AttemptWith(TwiceBackendBehaviours)

\* two queries in a row on one prompt
NextTwice == Query \/ TwiceAttempt \/ Exhausted \/ QueryAgain

SpecTwice == Init /\ [][NextTwice]_vars

\* ------------------------------------- one builder call on constructed prompts

OpsOutputs ==
    { <<>>,
      <<Slot("a", "str", "")>>,
      <<Slot("b", "int", "")>>,
      <<Slot("a", "str", ""), Slot("b", "int", "42")>> }

OpsTools ==
    { <<>>,
      <<Tool([id |-> 1, name |-> "f"])>>,
      <<Tool([id |-> 2, name |-> "g"])>>,
      <<Tool([id |-> 1, name |-> "f"]), Tool([id |-> 2, name |-> "g"])>>,
      <<Tool([id |-> 3, name |-> "f"])>> }

OpsTemplates ==
    { <<"Answer to everything">>,
      <<"Answer to ", "{{ x }}">>,
      <<"{{ y }}", " or ", "{{ x }}", " or ", "{{ y }}">> }

\* two prompts built by the constructor, each from Outputs of its own
InitOps ==
    /\ \E b \in OpsTemplates, d1 \in OpsOutputs, d2 \in OpsOutputs, t1 \in OpsTools, t2 \in OpsTools :
         /\ objs = d1 \o d2
         /\ prompts = << Prompt__init__(b, [i \in 1..Len(d1) |-> i], values(t1), d1 \o d2).val,
                         Prompt__init__(<<"Be brief">>, [i \in 1..Len(d2) |-> Len(d1) + i], values(t2), d1 \o d2).val >>
    /\ InitLocals

\* the call op(arguments) on prompt i ended as r = [err, val], leaving the
\* Output heap h
Called(op, i, arguments, r, h) ==
    /\ pc = "idle"
    /\ pc' = "called"
    /\ ret' = [op |-> op, on |-> i, arguments |-> arguments, err |-> r.err,
               id |-> IF Failed(r) THEN 0 ELSE Len(prompts) + 1]
    /\ objs' = IF Failed(r) THEN objs ELSE h
    /\ prompts' = IF Failed(r) THEN prompts ELSE Append(prompts, r.val)
    /\ UNCHANGED <<self, prompt, retries, retry_time, last_error, calls, log, outcome>>

CallOutput ==
    \E i \in 1..Len(prompts), a \in OutputArguments :
        LET r == Prompt_output(prompts[i], a[1], a[2], a[3], a[4], objs)
        IN Called("output", i, a, [err |-> r.err, val |-> r.val], r.heap)

CallTool ==
    \E i \in 1..Len(prompts), c \in Callables :
        Called("tool", i, c, Prompt_tool(prompts[i], c, objs), objs)

CallAdd ==
    \E i \in 1..Len(prompts), j \in 1..Len(prompts) :
        Called("add", i, j, Prompt__add__(prompts[i], AsOperand(prompts[j]), objs), objs)

PositionalArguments == { <<>>, <<"sky">>, <<"sky", "sea">>, <<"sky", "sea", "sun">> }

KeywordArguments ==
    { <<>>, [k \in {"x"} |-> "kx"], [k \in {"y"} |-> "ky"], [k \in {"x", "y"} |-> IF k = "x" THEN "kx" ELSE "ky"] }

CallCall ==
    \E i \in 1..Len(prompts), args \in PositionalArguments, kwargs \in KeywordArguments :
        Called("call", i, [args |-> args, kwargs |-> kwargs], Prompt__call__(prompts[i], args, kwargs, objs), objs)

NextOps == CallOutput \/ CallTool \/ CallAdd \/ CallCall

SpecOps == InitOps /\ [][NextOps]_vars

\* ------------------------------------------- outputs without a name

UnnamedSlots == {Slot(NONE, "str", ""), Slot(NONE, "int", ""), Slot("a", "str", "")}

\* the outputs argument of a constructor call: up to MaxSlots slots
UnnamedOutputSeqs == UNION {[1..n -> UnnamedSlots] : n \in 0..MaxSlots}

\* two prompts built by the constructor, each from Outputs of its own, with
\* one unnamed output at most
InitUnnamed ==
    /\ \E d1 \in UnnamedOutputSeqs, d2 \in UnnamedOutputSeqs, t1 \in DeclaredTools, t2 \in {<<>>, <<Tool([id |-> 2, name |-> "g"])>>} :
         /\ ~Failed(Prompt__init__(<<"Answer to everything">>, [i \in 1..Len(d1) |-> i], values(t1), d1 \o d2))
         /\ ~Failed(Prompt__init__(<<"Be brief">>, [i \in 1..Len(d2) |-> Len(d1) + i], values(t2), d1 \o d2))
         /\ objs = d1 \o d2
         /\ prompts = << Prompt__init__(<<"Answer to everything">>, [i \in 1..Len(d1) |-> i], values(t1), d1 \o d2).val,
                         Prompt__init__(<<"Be brief">>, [i \in 1..Len(d2) |-> Len(d1) + i], values(t2), d1 \o d2).val >>
    /\ InitLocals

\* Prompt("Answer to everything", outputs=[...]) from fresh Outputs
NewPrompt ==
    \E d \in UnnamedOutputSeqs :
        LET h == objs \o d
        IN Called("Prompt", 0, d, Prompt__init__(<<"Answer to everything">>, [i \in 1..Len(d) |-> Len(objs) + i], <<>>, h), h)

\* the arguments of output(): name, description, type, content
UnnamedOutputArguments ==
    { <<NONE, NONE, "str", "">>, <<NONE, "a number", "int", "42">>, <<"b", NONE, "str", "">> }

OutputUnnamed ==
    \E i \in 1..Len(prompts), a \in UnnamedOutputArguments :
        LET r == Prompt_output(prompts[i], a[1], a[2], a[3], a[4], objs)
        IN Called("output", i, a, [err |-> r.err, val |-> r.val], r.heap)

NextUnnamed == NewPrompt \/ OutputUnnamed \/ CallAdd

SpecUnnamed == InitUnnamed /\ [][NextUnnamed]_vars

\* --------------------------------------- applying a prompt and its result

ApplyTemplates ==
    { <<"Answer to ", "{{ x }}">>,
      <<"{{ y }}", " or ", "{{ x }}", " or ", "{{ y }}">>,
      <<"Answer to ", "{{ x }}", "\n">>,
      <<"Answer to ", "{{ x }}", "\n", "\n">> }

\* the values bound to variables: plain text, text that is a placeholder,
\* a newline, text that is a block tag
BoundValues == {"sky", "{{ y }}", "\n", "{% endfor %}"}

\* one prompt with variables, built by the constructor
InitApply ==
    /\ \E b \in ApplyTemplates, d \in DeclaredOutputs :
         /\ objs = d
         /\ prompts = <<Prompt__init__(b, [i \in 1..Len(d) |-> i], <<>>, d).val>>
    /\ InitLocals

\* p(*args) or p(**kwargs) with a value for every variable of p
Apply ==
    \E positional \in BOOLEAN :
        \E bindings \in [{get_variables(prompts[1])[k] : k \in 1..Len(get_variables(prompts[1]))} -> BoundValues] :
            LET names == get_variables(prompts[1])
                args == IF positional THEN [k \in 1..Len(names) |-> bindings[names[k]]] ELSE <<>>
                kwargs == IF positional THEN <<>> ELSE bindings
            IN Called("call", 1, [args |-> args, kwargs |-> kwargs, values |-> {bindings[n] : n \in DOMAIN bindings}],
                      Prompt__call__(prompts[1], args, kwargs, objs), objs)

\* the prompt that p(...) returned
Applied == prompts[ret.id]

\* an operation on the prompt that p(...) returned ended with error err,
\* leaving the Output heap h; made is the Prompt it returned, <<>> when it
\* returned none (it failed, or it returns no Prompt); ret keeps the bound
\* values of the application
Checked(op, err, made, h, variables, warning) ==
    /\ pc = "called"
    /\ ret.op = "call"
    /\ ret.err.kind = "none"
    /\ pc' = "checked"
    /\ ret' = [op |-> op, on |-> ret.id, arguments |-> ret.arguments, err |-> err,
               id |-> IF made = <<>> THEN 0 ELSE Len(prompts) + 1,
               variables |-> variables, warning |-> warning]
    /\ prompts' = IF made = <<>> THEN prompts ELSE Append(prompts, made[1])
    /\ objs' = h
    /\ UNCHANGED <<self, prompt, retries, retry_time, last_error, calls, log, outcome>>

\* r(): the result applied again with no arguments
ApplyAgain ==
    LET r == Prompt__call__(Applied, <<>>, <<>>, objs)
    IN Checked("again", r.err, IF Failed(r) THEN <<>> ELSE <<r.val>>, objs, <<>>, <<>>)

\* str(r): a string is returned, no Prompt; the warning it issues for
\* unresolved variables is kept
Stringify == Checked("str", NoErr, <<>>, Prompt__str__(Applied, objs).heap, <<>>, Prompt__str__(Applied, objs).warning)

\* r.get_variables(): a list of names is returned, no Prompt
FreeVariables == Checked("get_variables", NoErr, <<>>, objs, get_variables(Applied), <<>>)

NextApply == Apply \/ ApplyAgain \/ Stringify \/ FreeVariables

SpecApply == InitApply /\ [][NextApply]_vars

\* ------------------------------------------ the variables of a template

\* largest number of tokens of a template whose variables are extracted
MaxTokens == 4

TemplateTokens == {"Answer to ", "{{ x }}", "{{ y }}", "{{ i }}", "{% for i in y %}", "{% else %}", "{% endfor %}"}

\* Prompt(template) for a template of up to MaxTokens tokens
InitVars ==
    /\ \E n \in 0..MaxTokens : \E t \in [1..n -> TemplateTokens] :
         prompts = <<Prompt__init__(t, <<>>, <<>>, <<>>).val>>
    /\ objs = <<>>
    /\ InitLocals

\* p.get_variables()
GetVariables ==
    /\ pc = "idle"
    /\ pc' = "called"
    /\ ret' = [op |-> "get_variables", on |-> 1, val |-> get_variables(prompts[1])]
    /\ UNCHANGED <<objs, prompts, self, prompt, retries, retry_time, last_error, calls, log, outcome>>

\* the values bound to the variables of a template with loops: a string of
\* three characters, the empty string
IterableValues == {"abc", ""}

\* p(**bindings) with a value for every variable of p: the loops are run
Substitute ==
    \E bindings \in [{get_variables(prompts[1])[k] : k \in 1..Len(get_variables(prompts[1]))} -> IterableValues] :
        LET r == Prompt__call__(prompts[1], <<>>, bindings, objs)
        IN Called("call", 1, [args |-> <<>>, kwargs |-> bindings], r, objs)

NextVars == GetVariables \/ Substitute

SpecVars == InitVars /\ [][NextVars]_vars

\* ------------------------------------------------- encoding and decoding

\* a content string that is a literal of the type (any text for str)
LiteralOf(type) ==
    CASE type = "int" -> "42"
      [] type = "float" -> "4.2"
      [] type = "bool" -> "True"
      [] OTHER -> "hello"

\* contents of the str slots that the tests encode and decode
TestContents == {"a = \"10\"", "ls -lh\nchmod 755 test.txt"}

\* valid Outputs: named or not, described or not, of every type, with empty
\* content or with a literal of the type (for str, also the contents of the
\* tests).  No content here holds markup characters or surrounding white
\* space: what the codec does to those is not in the files at hand
ValidOutputs ==
    UNION { { Output__init__(nm, ds, ty, ct).val :
                  nm \in {"a", "b", NONE}, ds \in {NONE, "a number"},
                  ct \in {"", LiteralOf(ty)} \cup (IF ty = "str" THEN TestContents ELSE {}) }
            : ty \in OutputTypes }

\* the sequences of up to MaxSlots valid Outputs with pairwise distinct names
ValidOutputSeqs ==
    {d \in UNION {[1..n -> ValidOutputs] : n \in 0..MaxSlots} : \A i, j \in 1..Len(d) : i # j => d[i].name # d[j].name}

InitCodec ==
    /\ objs \in ValidOutputSeqs
    /\ prompts = <<>>
    /\ InitLocals

\* xml_to_outputs(outputs_to_xml(outputs))
RoundTrip ==
    /\ pc = "idle"
    /\ pc' = "coded"
    /\ LET r == xml_to_outputs(outputs_to_xml(objs))
       IN ret' = [op |-> "roundtrip", text |-> outputs_to_xml(objs), first |-> objs, last |-> objs, err |-> r.err, val |-> r.val]
    /\ UNCHANGED <<objs, prompts, self, prompt, retries, retry_time, last_error, calls, log, outcome>>

\* the envelopes that follow the first one in a reply
LaterEnvelopes ==
    { <<>>,
      <<Slot("a", "str", "hello")>>,
      <<Slot("color", "str", "red"), Slot("b", "int", "42")>> }

\* replies holding the envelope of e1 and then the envelope of e2, with
\* prose around and between them, the second one fenced or not, or followed
\* by an envelope that is never closed
TwoEnvelopeTexts(e1, e2) ==
    { outputs_to_xml(e1) \o outputs_to_xml(e2),
      <<"Well,">> \o outputs_to_xml(e1) \o <<"However, it's important to note">> \o outputs_to_xml(e2) \o <<"Bye">>,
      outputs_to_xml(e1) \o <<"or rather", "~~~xml">> \o outputs_to_xml(e2) \o <<"~~~">>,
      <<"~~~xml">> \o outputs_to_xml(e1) \o <<"~~~">> \o outputs_to_xml(e2) \o <<"and", "<outputs>", "<output", "a">> }

NoEnvelopeTexts ==
    { <<>>, <<"This string does not contain an xml">>, <<"</outputs>", "<output", "a", "</output>">>, <<"~~~xml", "~~~">> }

\* xml_to_outputs(text) on a reply with two envelopes or with none
Decode ==
    /\ pc = "idle"
    /\ pc' = "coded"
    /\ \/ \E e2 \in LaterEnvelopes : \E text \in TwoEnvelopeTexts(objs, e2) :
            LET r == xml_to_outputs(text)
            IN ret' = [op |-> "decode", text |-> text, first |-> objs, last |-> e2, err |-> r.err, val |-> r.val]
       \/ \E text \in NoEnvelopeTexts :
            LET r == xml_to_outputs(text)
            IN ret' = [op |-> "decode_plain", text |-> text, first |-> <<>>, last |-> <<>>, err |-> r.err, val |-> r.val]
    /\ UNCHANGED <<objs, prompts, self, prompt, retries, retry_time, last_error, calls, log, outcome>>

NextCodec == RoundTrip \/ Decode

SpecCodec == InitCodec /\ [][NextCodec]_vars

\* ------------------------------------------------ parameter type schemas

\* Python types are terms <<kind, argument, ...>>: <<"str">>, <<"int">>,
\* <<"float">>, <<"bool">>, <<"list">>, <<"dict">>, <<"NoneType">>,
\* <<"Decimal">> (a class the codec does not recognize), <<"List", T>> and
\* <<"Union", T1, ..., Tn>>.  Schema fragments are terms too: <<"string">>,
\* <<"integer">>, <<"number">>, <<"boolean">>, <<"array">>, <<"array", S>>,
\* <<"object">> and <<"anyOf", S1, ..., Sn>>.

\* the members of a sequence, each once, in order of first occurrence
RECURSIVE Deduplicated(_)
Deduplicated(members) ==
    IF members = <<>> THEN <<>>
    ELSE LET front == Deduplicated(SubSeq(members, 1, Len(members) - 1))
             last == members[Len(members)]
         IN IF \E i \in 1..Len(front) : front[i] = last THEN front ELSE Append(front, last)

\* typing.Union[members]: nested unions are flattened, duplicates dropped,
\* and a union of one type is that type
MakeUnion(members) ==
    LET flat == Deduplicated(Flatten([i \in 1..Len(members) |->
                    IF members[i][1] = "Union" THEN Tail(members[i]) ELSE <<members[i]>>]))
    IN IF Len(flat) = 1 THEN flat[1] ELSE <<"Union">> \o flat

RECURSIVE python_type_to_json_schema(_)
python_type_to_json_schema(py_type) ==
    CASE py_type = <<"str">> -> <<"string">>
      [] py_type = <<"int">> -> <<"integer">>
      [] py_type = <<"float">> -> <<"number">>
      [] py_type = <<"bool">> -> <<"boolean">>
      [] py_type = <<"list">> -> <<"array">>
      [] py_type[1] = "List" -> <<"array", python_type_to_json_schema(py_type[2])>>
      [] py_type = <<"dict">> -> <<"object">>
      [] py_type[1] = "Union" ->
           LET args == Tail(py_type)
           IN IF Len(args) = 2 /\ (args[1] = <<"NoneType">> \/ args[2] = <<"NoneType">>)
              THEN python_type_to_json_schema(IF args[2] = <<"NoneType">> THEN args[1] ELSE args[2])
              ELSE <<"anyOf">> \o [i \in 1..Len(args) |-> python_type_to_json_schema(args[i])]
      [] OTHER -> <<"string">>

RECURSIVE json_schema_to_python_type(_)
json_schema_to_python_type(schema) ==
    CASE schema = <<"string">> -> <<"str">>
      [] schema = <<"integer">> -> <<"int">>
      [] schema = <<"number">> -> <<"float">>
      [] schema = <<"boolean">> -> <<"bool">>
      [] schema = <<"array">> -> <<"list">>
      [] schema[1] = "array" /\ Len(schema) = 2 -> <<"List", json_schema_to_python_type(schema[2])>>
      [] schema = <<"object">> -> <<"dict">>
      [] schema[1] = "anyOf" -> MakeUnion([i \in 1..(Len(schema) - 1) |-> json_schema_to_python_type(schema[i + 1])])
      [] OTHER -> <<"str">>

\* largest number of members written in a Union annotation
MaxMembers == 3

PlainTypes == {<<"str">>, <<"int">>, <<"float">>, <<"bool">>, <<"list">>, <<"dict">>, <<"Decimal">>}

\* plain types, List[T] and Optional[T] of them
SimpleTypes ==
    PlainTypes \cup {<<"List", t>> : t \in PlainTypes} \cup {MakeUnion(<<t, <<"NoneType">> >>) : t \in PlainTypes}

\* the annotations of a parameter: simple types, lists of them, and unions
\* of 2..MaxMembers simple types or None
ParameterTypes ==
    SimpleTypes
    \cup {<<"List", t>> : t \in SimpleTypes}
    \cup {MakeUnion(m) : m \in UNION {[1..n -> SimpleTypes \cup {<<"NoneType">>}] : n \in 2..MaxMembers}}

InitSchema ==
    /\ objs \in {<<t>> : t \in ParameterTypes \ {<<"NoneType">>}}
    /\ prompts = <<>>
    /\ InitLocals

\* python_type_to_json_schema of a parameter's annotation, inverted and encoded again
EncodeType ==
    /\ pc = "idle"
    /\ pc' = "encoded"
    /\ LET schema == python_type_to_json_schema(objs[1])
           back == json_schema_to_python_type(schema)
       IN ret' = [op |-> "schema", schema |-> schema, back |-> back, again |-> python_type_to_json_schema(back)]
    /\ UNCHANGED <<objs, prompts, self, prompt, retries, retry_time, last_error, calls, log, outcome>>

NextSchema == EncodeType

SpecSchema == InitSchema /\ [][NextSchema]_vars

\* ------------------------------------------------- slot construction

SlotNameArguments == {NONE, "", "a", "color", "python code"}

SlotTypeArguments == OutputTypes \cup {"message"}

SlotContentArguments == {"", "42", "4.2", "True", "x", "x y", "Hello World", "[1, 2, 3]"}

\* the arguments of one Output(...) call, held in objs[1]
InitSlot ==
    /\ objs \in {<<[name |-> n, description |-> d, type |-> ty, content |-> ct]>> :
                    n \in SlotNameArguments, d \in {NONE, "A greeting"},
                    ty \in SlotTypeArguments, ct \in SlotContentArguments}
    /\ prompts = <<>>
    /\ InitLocals

\* Output(name=..., description=..., type=..., content=...)
NewOutput ==
    /\ pc = "idle"
    /\ pc' = "built"
    /\ LET a == objs[1]
           r == Output__init__(a.name, a.description, a.type, a.content)
       IN ret' = [op |-> "Output", err |-> r.err]
    /\ UNCHANGED <<objs, prompts, self, prompt, retries, retry_time, last_error, calls, log, outcome>>

\* convert_to_Python_type(content, type)
Coerce ==
    /\ pc = "idle"
    /\ pc' = "coerced"
    /\ ret' = [op |-> "convert", err |-> convert_to_Python_type(objs[1].content, objs[1].type).err]
    /\ UNCHANGED <<objs, prompts, self, prompt, retries, retry_time, last_error, calls, log, outcome>>

NextSlot == NewOutput \/ Coerce

SpecSlot == InitSlot /\ [][NextSlot]_vars

\* ------------------------------------------------------------ properties

\* attempt k ended in a validation failure: the backend returned a reply and
\* building the Response raised ResponseError
ValidationFailure(k) == ~log[k].behaviour.raises /\ log[k].err.kind = "ResponseError"

\* attempt k got a reply that was accepted
ValidReply(k) == ~log[k].behaviour.raises /\ log[k].err.kind = "none"

InQuery == pc \in {"loop", "returned", "raised"}

\* C1: retry termination.  With retries = R >= 1 and every reply failing
\* validation, the query is still running while fewer than R backend calls
\* were made, never returns, and once it has raised exactly R calls were made
\* and the error raised is the one of the R-th attempt.
C1_RetryTermination ==
    (InQuery /\ retries >= 1 /\ \A k \in 1..Len(log) : ValidationFailure(k))
        => /\ calls = Len(log)
           /\ calls <= retries
           /\ pc # "returned"
           /\ calls < retries => pc = "loop"
           /\ pc = "raised" => /\ calls = retries
                               /\ outcome.kind = "raise"
                               /\ outcome.err = log[retries].err

C1_Witness ==
    /\ pc = "raised" /\ retries = 3 /\ calls = 3
    /\ \A k \in 1..3 : ValidationFailure(k)
    /\ log[3].err # log[1].err /\ log[3].err # log[2].err
    /\ outcome.err = log[3].err

\* C2: success short-circuit.  When the first valid reply is the k-th, the
\* query has returned after exactly k backend calls, the Response returned
\* holds the k-th reply as its raw text, and every earlier attempt failed.
C2_SuccessShortCircuit ==
    InQuery => \A k \in 1..Len(log) :
        ValidReply(k) => /\ k = Len(log)
                         /\ calls = k
                         /\ k <= retries
                         /\ pc = "returned"
                         /\ outcome.kind = "return"
                         /\ outcome.val.raw = log[k].behaviour.reply
                         /\ \A j \in 1..(k - 1) : log[j].err.kind # "none"

C2_Witness ==
    /\ pc = "returned" /\ retries = 3 /\ calls = 2
    /\ ValidationFailure(1) /\ ValidReply(2)
    /\ outcome.val.raw = log[2].behaviour.reply
    /\ log[2].behaviour.reply # log[1].behaviour.reply

\* C3: query with retries = 0 raises an error of the library's own taxonomy,
\* after no backend call and without returning a Response.
C3_ZeroRetriesLibraryError ==
    (pc \in {"returned", "raised"} /\ retries = 0)
        => /\ calls = 0
           /\ outcome.kind = "raise"
           /\ outcome.err.kind \in PrymptErrorKinds

\* C4 as stated: a library error other than ResponseError raised while a reply
\* is decoded ends the query at that attempt: no further attempt is made and
\* the error is the one the caller gets.
C4_OnlyResponseErrorRetried ==
    InQuery => \A k \in 1..Len(log) :
        (~log[k].behaviour.raises /\ log[k].err.kind \in PrymptErrorKinds \ {"ResponseError"})
            => /\ k = Len(log)
               /\ calls = k
               /\ pc # "returned"
               /\ pc = "raised" => outcome.err = log[k].err

\* C4 amended: every PrymptError raised while a reply is decoded or validated,
\* MalformedOutput like ResponseError, triggers a corrective retry: after it
\* the loop goes on with the error remembered, and the caller gets it only
\* when the attempt was the last one allowed; an error outside the taxonomy
\* ends the query at once and is what the caller gets.
C4_EveryPrymptErrorRetried ==
    InQuery => \A k \in 1..Len(log) :
        /\ (~log[k].behaviour.raises /\ log[k].err.kind \in PrymptErrorKinds /\ k = Len(log))
               => \/ pc = "loop" /\ last_error = log[k].err /\ retry_time = k
                  \/ pc = "raised" /\ k = retries /\ outcome.err = log[k].err
        /\ (~log[k].behaviour.raises /\ log[k].err.kind \notin PrymptErrorKinds \cup {"none"})
               => k = Len(log) /\ calls = k /\ pc = "raised" /\ outcome.err = log[k].err

C4_Witness ==
    /\ pc = "loop" /\ Len(log) = 2 /\ retries = 3
    /\ ~log[1].behaviour.raises /\ log[1].err.kind = "MalformedOutput"
    /\ Contains(log[2].sent, log[1].err.message)

\* C5 as stated: an error raised by the backend itself at attempt k is not
\* caught: it is what the caller gets, k backend calls were made in all, and
\* no corrective prompt was built from it.
C5_BackendErrorPropagates ==
    InQuery => \A k \in 1..Len(log) :
        log[k].behaviour.raises
            => /\ k = Len(log)
               /\ calls = k
               /\ pc # "returned"
               /\ pc = "raised" => outcome.err = log[k].behaviour.err

\* C5 amended: the same, for an error raised by the backend that is not an
\* instance of PrymptError.
C5_ForeignBackendErrorPropagates ==
    InQuery => \A k \in 1..Len(log) :
        (log[k].behaviour.raises /\ log[k].behaviour.err.kind \notin PrymptErrorKinds)
            => /\ k = Len(log)
               /\ calls = k
               /\ pc = "raised"
               /\ outcome.kind = "raise"
               /\ outcome.err = log[k].behaviour.err
               /\ prompt = log[k].prompt

C5_Witness ==
    /\ pc = "raised" /\ retries = 3 /\ calls = 2
    /\ ValidationFailure(1)
    /\ log[2].behaviour.raises /\ log[2].behaviour.err.kind = "BackendError"
    /\ outcome.err = log[2].behaviour.err

\* the messages msgs occur in text one after the other, in this order
RECURSIVE InOrder(_, _)
InOrder(whole, subs) ==
    IF subs = <<>> THEN TRUE
    ELSE LET at == Occurrences(whole, subs[1])
         IN at # {} /\ LET i == CHOOSE x \in at : \A y \in at : x <= y
                       IN InOrder(SubSeq(whole, i + Len(subs[1]) + 1, Len(whole)), Tail(subs))

ContainsInOrder(text, msgs) == InOrder(Chars(text), [j \in 1..Len(msgs) |-> Chars(msgs[j])])

\* C6: correcting transition.  The prompt of attempt k+1 has the body of
\* attempt k followed by text that contains the message of the k-th failure,
\* and the declared outputs and tools of attempt k; the text sent at attempt
\* k+1 contains the messages of all k earlier failures in order; every
\* attempt uses the declared outputs and tools of the prompt queried.
C6_CorrectingTransition ==
    InQuery => \A k \in 1..Len(log) :
        /\ log[k].prompt.outputs = prompts[self].outputs
        /\ log[k].prompt.tools = prompts[self].tools
        /\ SubSeq(log[k].sent, 1, Len(log[k].prompt.template)) = log[k].prompt.template
        /\ k > 1 =>
             LET before == log[k - 1].prompt.template
                 now == log[k].prompt.template
             IN /\ Len(now) > Len(before)
                /\ SubSeq(now, 1, Len(before)) = before
                /\ Contains(SubSeq(now, Len(before) + 1, Len(now)), log[k - 1].err.message)
                /\ log[k].prompt.outputs = log[k - 1].prompt.outputs
                /\ log[k].prompt.tools = log[k - 1].prompt.tools
                /\ ContainsInOrder(log[k].sent, [j \in 1..(k - 1) |-> log[j].err.message])

C6_Witness ==
    /\ Len(log) = 3
    /\ ValidationFailure(1) /\ ValidationFailure(2)
    /\ log[1].err.message # log[2].err.message
    /\ Len(prompts[self].outputs) = 2 /\ prompts[self].tools # <<>>
    /\ ContainsInOrder(log[3].sent, <<log[1].err.message, log[2].err.message>>)
    /\ ~ContainsInOrder(log[3].sent, <<log[2].err.message, log[1].err.message>>)

\* the Response construction of attempt k: what was declared, what the reply decodes to
Declared(k) == [i \in 1..Len(log[k].prompt.outputs) |-> objs[log[k].prompt.outputs[i]]]

Decoded(k) == xml_to_outputs(log[k].behaviour.reply)

\* C7: validation count rule.  With n >= 1 declared outputs and a reply that
\* decodes to m outputs, m # n makes the construction fail with a
\* ResponseError whose message names n and m, and m = n raises no count failure.
C7_CountRule ==
    (pc = "constructed" /\ ~Failed(Decoded(1)) /\ Len(Declared(1)) >= 1)
        => LET n == Len(Declared(1))
               m == Len(Decoded(1).val)
               count == <<"Expected ", ToString(n), " outputs in LLM response, but got ", ToString(m)>>
           IN /\ m # n => outcome.kind = "raise" /\ outcome.err.kind = "ResponseError" /\ outcome.err.message = count
              /\ m = n => \A a, b \in 0..(2 * MaxSlots + 2) :
                            outcome.err.message # <<"Expected ", ToString(a), " outputs in LLM response, but got ", ToString(b)>>

C7_Witness ==
    /\ pc = "constructed" /\ Len(Declared(1)) = 1 /\ Len(Decoded(1).val) = 2
    /\ outcome.err.kind = "ResponseError"
    /\ Contains(outcome.err.message, <<"1">>) /\ Contains(outcome.err.message, <<"2">>)

NameLine(i, d, r) ==
    <<"Name for output at position ", ToString(i - 1), " ('", Str(d.name), "') differs from the one provided by LLM ('", Str(r.name), "')">>

TypeLine(i, d, r) ==
    <<"Type for output at position ", ToString(i - 1), " ('", Str(d.type), "') differs from the one provided by LLM ('", Str(r.type), "')">>

\* C8: validation identity rule.  With equal counts the Response is accepted
\* iff name and type agree at every position; otherwise one ResponseError is
\* raised whose message has a line for every name mismatch and every type
\* mismatch, with both values, and no line for a position that agrees.
C8_IdentityRule ==
    (pc = "constructed" /\ ~Failed(Decoded(1)) /\ Len(Declared(1)) >= 1 /\ Len(Decoded(1).val) = Len(Declared(1)))
        => LET d == Declared(1)
               r == Decoded(1).val
               agree == \A i \in 1..Len(d) : d[i].name = r[i].name /\ d[i].type = r[i].type
           IN /\ outcome.kind = "return" <=> agree
              /\ ~agree => /\ outcome.err.kind = "ResponseError"
                           /\ \A i \in 1..Len(d) :
                                /\ d[i].name # r[i].name <=> Contains(outcome.err.message, NameLine(i, d[i], r[i]))
                                /\ d[i].type # r[i].type <=> Contains(outcome.err.message, TypeLine(i, d[i], r[i]))

C8_Witness ==
    /\ pc = "constructed" /\ Len(Declared(1)) = 2 /\ Len(Decoded(1).val) = 2
    /\ \A i \in 1..2 : Declared(1)[i].name # Decoded(1).val[i].name /\ Declared(1)[i].type # Decoded(1).val[i].type
    /\ outcome.err.kind = "ResponseError"
    /\ \A i \in 1..2 : /\ Contains(outcome.err.message, NameLine(i, Declared(1)[i], Decoded(1).val[i]))
                       /\ Contains(outcome.err.message, TypeLine(i, Declared(1)[i], Decoded(1).val[i]))

\* C9 as stated: a prompt that declares no outputs accepts every reply: the
\* Response is built and the query returns after one backend call.
C9_NoOutputsAnyReplyValid ==
    (InQuery /\ prompts[self].outputs = <<>> /\ Len(log) >= 1 /\ ~log[1].behaviour.raises)
        => /\ calls = 1
           /\ pc # "raised"
           /\ pc = "returned" => log[1].err.kind = "none"

\* C9 amended: a prompt that declares no outputs accepts every reply that
\* decodes without error, whatever envelopes and slots it holds.
C9_NoOutputsDecodedReplyValid ==
    (InQuery /\ prompts[self].outputs = <<>> /\ Len(log) >= 1 /\ ~log[1].behaviour.raises /\ ~Failed(Decoded(1)))
        => /\ log[1].err.kind = "none"
           /\ pc = "returned"
           /\ calls = 1
           /\ outcome.val.outputs = Decoded(1).val

C9_Witness ==
    /\ pc = "returned" /\ prompts[self].outputs = <<>> /\ calls = 1
    /\ Len(outcome.val.outputs) = 2

\* the declared outputs of prompt i with their fields, read through the heap
OutputsOf(i) == [k \in 1..Len(prompts[i].outputs) |-> objs[prompts[i].outputs[k]]]

\* C10: prompt immutability.  No step (substitution, output, tool,
\* concatenation, error, str, a query step; succeeding or failing) changes
\* the template, the declared outputs with their contents or the tool map of
\* a Prompt that exists, and a builder operation that succeeds returns a
\* Prompt object that did not exist before.
C10_PromptImmutability ==
    /\ [][\A i \in 1..Len(prompts) :
            /\ i <= Len(prompts')
            /\ prompts'[i] = prompts[i]
            /\ OutputsOf(i)' = OutputsOf(i)]_vars
    /\ [](ret.op \in {"output", "tool", "add", "call", "error"} /\ ret.err.kind = "none"
            => ret.id # ret.on /\ ret.id = Len(prompts))

C10_Witness ==
    /\ pc = "raised" /\ calls = 2 /\ self = 3
    /\ Len(prompts) = 3
    /\ Len(prompts[2].outputs) = 1
    /\ Len(prompts[3].outputs) = 2 /\ prompts[3].outputs[1] = prompts[2].outputs[1]
    /\ OutputsOf(3)[2].content = "42"


\* the names of the outputs prompt i declares, in order
DeclaredNames(i) == NamesOf(objs, prompts[i].outputs)

\* the line of the duplicate-name report for positions k and m (1-based here, 0-based in the text)
DuplicateLine(k, m, name) ==
    <<"Found outputs at positions ", ToString(k - 1), ", ", ToString(m - 1), " with same name: '", Str(name), "'">>

\* C11: output-name uniqueness.  Every Prompt has pairwise distinct declared
\* output names, and an output() or a concatenation that would give a prompt
\* two outputs of one name fails with PromptError whose message names the
\* position of the first occurrence, the position of the duplicate and the
\* name.  (Concatenations of prompts that share a tool name are left out:
\* they fail earlier, with ConcatenationError.)
C11_OutputNameUniqueness ==
    /\ \A i \in 1..Len(prompts) :
         \A k, m \in 1..Len(DeclaredNames(i)) : k # m => DeclaredNames(i)[k] # DeclaredNames(i)[m]
    /\ (pc = "called" /\ ret.op = "output"
          /\ ~Failed(Output__init__(ret.arguments[1], ret.arguments[2], ret.arguments[3], ret.arguments[4])))
         => \A k \in 1..Len(DeclaredNames(ret.on)) :
              DeclaredNames(ret.on)[k] = ret.arguments[1]
                 => /\ ret.err.kind = "PromptError"
                    /\ Contains(ret.err.message, DuplicateLine(k, Len(DeclaredNames(ret.on)) + 1, ret.arguments[1]))
    /\ (pc = "called" /\ ret.op = "add" /\ keys(prompts[ret.on].tools) \cap keys(prompts[ret.arguments].tools) = {})
         => \A k \in 1..Len(DeclaredNames(ret.on)), m \in 1..Len(DeclaredNames(ret.arguments)) :
              DeclaredNames(ret.on)[k] = DeclaredNames(ret.arguments)[m]
                 => /\ ret.err.kind = "PromptError"
                    /\ Contains(ret.err.message, DuplicateLine(k, Len(DeclaredNames(ret.on)) + m, DeclaredNames(ret.on)[k]))

\* C12: tool-set concatenation.  p1 + p2 fails with ConcatenationError naming
\* every shared tool name when the tool names of p1 and p2 intersect, and no
\* Prompt is produced; when they are disjoint the concatenation fails only
\* for a duplicate output name, and the prompt it otherwise returns has as
\* tool names the union of both, each mapped to the tool of its operand.
C12_ToolSetConcatenation ==
    (pc = "called" /\ ret.op = "add")
        => LET p1 == prompts[ret.on]
               p2 == prompts[ret.arguments]
               shared == keys(p1.tools) \cap keys(p2.tools)
           IN /\ shared # {} => /\ ret.err.kind = "ConcatenationError"
                                /\ ret.err.message[1] = "Trying to concatenate two prompts with overlapping tools: "
                                /\ {ret.err.message[k] : k \in 2..Len(ret.err.message)} \ {", "} = shared
                                /\ ret.id = 0 /\ Len(prompts) = 2
              /\ shared = {} => /\ ret.err.kind \in {"none", "PromptError"}
                                /\ ret.err.kind = "none" =>
                                     LET sum == prompts[ret.id]
                                     IN /\ keys(sum.tools) = keys(p1.tools) \cup keys(p2.tools)
                                        /\ Len(sum.tools) = Cardinality(keys(sum.tools))
                                        /\ \A k \in 1..Len(sum.tools) :
                                             \/ \E i \in 1..Len(p1.tools) : p1.tools[i] = sum.tools[k]
                                             \/ \E j \in 1..Len(p2.tools) : p2.tools[j] = sum.tools[k]

C12_Witness ==
    /\ pc = "called" /\ ret.op = "add" /\ ret.err.kind = "none"
    /\ ret.on = 2 /\ ret.arguments = 1
    /\ keys(prompts[1].tools) = {"f"} /\ keys(prompts[2].tools) = {"g"}
    /\ prompts[1].tools[1].callable = 3
    /\ prompts[3].tools = <<prompts[2].tools[1], prompts[1].tools[1]>>

\* the arguments of the call recorded in ret bind every variable of the
\* template of prompt i exactly once
CompleteBindings(i) ==
    LET names == get_variables(prompts[i])
        n == Len(ret.arguments.args)
    IN /\ n <= Len(names)
       /\ \A k \in 1..Len(names) : (k <= n) # (names[k] \in DOMAIN ret.arguments.kwargs)

\* C13: variable substitution preserves declarations.  For every prompt,
\* prompts that declare tools included, and every complete set of bindings,
\* p(*positional, **named) returns a new Prompt with the declared outputs of
\* p in the same order and the tool map of p.
C13_SubstitutionPreservesDeclarations ==
    (pc = "called" /\ ret.op = "call" /\ CompleteBindings(ret.on))
        => /\ ret.err.kind = "none"
           /\ ret.id = Len(prompts) /\ ret.id # ret.on
           /\ prompts[ret.id].outputs = prompts[ret.on].outputs
           /\ prompts[ret.id].tools = prompts[ret.on].tools

\* the positions of a loop-free template at which a variable appears for the first time
FirstAppearances(template) ==
    {p \in 1..Len(template) : /\ JinjaVariable(template[p]) # NONE
                              /\ \A q \in 1..(p - 1) : JinjaVariable(template[q]) # JinjaVariable(template[p])}

\* the k-th free variable of a loop-free template, in order of first appearance
KthVariable(template, k) ==
    LET p == CHOOSE x \in FirstAppearances(template) : Cardinality({q \in FirstAppearances(template) : q <= x}) = k
    IN JinjaVariable(template[p])

\* C14: positional binding.  More positional arguments than free variables:
\* ReplacementError naming both counts.  Otherwise a keyword argument for a
\* variable that is also bound positionally: ReplacementError naming the
\* (first such) variable.  In both cases no Prompt is produced.  In a Prompt
\* that is returned, every occurrence of the k-th free variable (order of
\* first appearance) is replaced by the k-th positional argument.
C14_PositionalBinding ==
    (pc = "called" /\ ret.op = "call")
        => LET template == prompts[ret.on].template
               n == Cardinality(FirstAppearances(template))
               args == ret.arguments.args
               kwargs == ret.arguments.kwargs
               clash == {k \in 1..Len(args) : k <= n /\ KthVariable(template, k) \in DOMAIN kwargs}
           IN /\ Len(args) > n
                   => /\ ret.err.kind = "ReplacementError"
                      /\ Contains(ret.err.message, <<"Provided ", ToString(Len(args))>>)
                      /\ Contains(ret.err.message, <<ToString(n), " variables">>)
                      /\ ret.id = 0 /\ Len(prompts) = 2
              /\ (Len(args) <= n /\ clash # {})
                   => /\ ret.err.kind = "ReplacementError"
                      /\ Contains(ret.err.message, <<"variable '", KthVariable(template, CHOOSE k \in clash : \A m \in clash : k <= m), "'">>)
                      /\ ret.id = 0 /\ Len(prompts) = 2
              /\ (Len(args) <= n /\ clash = {}) => ret.err.kind # "ReplacementError"
              /\ ret.err.kind = "none"
                   => /\ Len(prompts[ret.id].template) = Len(template)
                      /\ \A t \in 1..Len(template), k \in 1..Len(args) :
                           JinjaVariable(template[t]) = KthVariable(template, k) => prompts[ret.id].template[t] = args[k]

C14_Witness ==
    /\ pc = "called" /\ ret.op = "call" /\ ret.err.kind = "none"
    /\ ret.arguments.args = <<"sky", "sea">>
    /\ prompts[ret.on].template = <<"{{ y }}", " or ", "{{ x }}", " or ", "{{ y }}">>
    /\ prompts[ret.id].template = <<"sky", " or ", "sea", " or ", "sky">>

\* the number of loops that are open at token k of a template
LoopDepth(template, k) ==
    Cardinality({q \in 1..(k - 1) : ForIter(template[q]) # NONE}) - Cardinality({q \in 1..(k - 1) : template[q] = "{% endfor %}"})

\* the name token k references: a variable, or what a for tag iterates over
ReferencedAt(template, k) == IF ForIter(template[k]) # NONE THEN ForIter(template[k]) ELSE JinjaVariable(template[k])

\* the positions outside every loop at which a name is referenced
OutsideLoops(template) == {k \in 1..Len(template) : LoopDepth(template, k) = 0 /\ ReferencedAt(template, k) # NONE}

\* C15: variable extraction.  For a template that parses, get_variables
\* returns, without repetition and in order of first appearance, exactly the
\* names referenced outside the loops plus the names the outermost loops
\* iterate over; the loop-bound name and the names that occur only inside a
\* loop body or else-clause are absent.
C15_VariableExtraction ==
    (pc = "called" /\ ret.op = "get_variables" /\ Parses(prompts[1].template))
        => LET t == prompts[1].template
               r == ret.val
               first(v) == CHOOSE k \in OutsideLoops(t) : ReferencedAt(t, k) = v /\ \A q \in OutsideLoops(t) : ReferencedAt(t, q) = v => k <= q
           IN /\ \A a, b \in 1..Len(r) : a # b => r[a] # r[b]
              /\ {r[a] : a \in 1..Len(r)} = {ReferencedAt(t, k) : k \in OutsideLoops(t)}
              /\ \A a, b \in 1..Len(r) : a < b => first(r[a]) < first(r[b])
              /\ \A k \in 1..Len(t) :
                   (JinjaVariable(t[k]) # NONE /\ LoopDepth(t, k) > 0 /\ \A q \in OutsideLoops(t) : ReferencedAt(t, q) # JinjaVariable(t[k]))
                       => \A a \in 1..Len(r) : r[a] # JinjaVariable(t[k])

C15_Witness ==
    /\ pc = "called" /\ ret.op = "get_variables"
    /\ prompts[1].template = <<"{{ x }}", "{% for i in y %}", "{{ i }}", "{% endfor %}">>
    /\ ret.val = <<"x", "y">>

\* C17: last-wins decoding.  For text with two well-formed envelopes,
\* whatever prose stands around them and fenced or not, the decoder returns
\* exactly the slots of the last one, none of the first; text without an
\* envelope decodes to the empty sequence without error.
C17_LastWinsDecoding ==
    /\ (pc = "coded" /\ ret.op = "decode") => ret.err.kind = "none" /\ ret.val = ret.last
    /\ (pc = "coded" /\ ret.op = "decode_plain") => ret.err.kind = "none" /\ ret.val = <<>>

C17_Witness ==
    /\ pc = "coded" /\ ret.op = "decode"
    /\ Len(ret.first) = 2 /\ Len(ret.last) = 1 /\ ret.val = ret.last
    /\ Contains(ret.text, <<"~~~xml">> \o outputs_to_xml(ret.last) \o <<"~~~">>)

\* the slots of the reply that carry name, in document order
SlotsNamed(name) == SelectSeq(Decoded(1).val, LAMBDA o : o.name = name)

\* C18 as stated: attribute lookup by a slot name yields the content of the
\* first observed slot of that name, containment is true iff some observed
\* slot has the name, and positional access and length reflect all observed
\* slots in document order, duplicates included.
C18_ResultLookup ==
    (pc = "looked" /\ ret.op = "lookup")
        => /\ SlotsNamed(ret.name) # <<>> => ret.attr.err.kind = "none" /\ ret.attr.val = SlotsNamed(ret.name)[1].content
           /\ ret.contains <=> SlotsNamed(ret.name) # <<>>
           /\ ret.len = Len(Decoded(1).val)
           /\ ret.items = Decoded(1).val

\* C18 amended: the same, for a slot name that is not the name of an
\* attribute the Response object has of its own (a method or a private
\* field); looking up such a name yields the object's own attribute, whatever
\* the reply holds, while containment, length and positional access still
\* reflect the slot.
C18_ResultLookupOfFreeNames ==
    (pc = "looked" /\ ret.op = "lookup")
        => /\ (SlotsNamed(ret.name) # <<>> /\ ret.name \notin ResponseAttributes)
                 => ret.attr.err.kind = "none" /\ ret.attr.val = SlotsNamed(ret.name)[1].content
           /\ (SlotsNamed(ret.name) = <<>> /\ ret.name \notin ResponseAttributes) => ret.attr.err.kind = "AttributeError"
           /\ ret.name \in ResponseAttributes
                 => ret.attr.err.kind = "none" /\ \A k \in 1..Len(Decoded(1).val) : ret.attr.val # Decoded(1).val[k].content
           /\ ret.contains <=> SlotsNamed(ret.name) # <<>>
           /\ ret.len = Len(Decoded(1).val)
           /\ ret.items = Decoded(1).val

C18_Witness ==
    /\ pc = "looked" /\ ret.op = "lookup" /\ ret.name = "a"
    /\ Len(SlotsNamed("a")) = 2
    /\ SlotsNamed("a")[1].content = "hello" /\ SlotsNamed("a")[2].content = "42"
    /\ ret.attr.val = "hello" /\ ret.contains /\ ret.len = 2

\* C19: schema round-trip on type fragments.  For every parameter type built
\* from str, int, float, bool, list, List[T], dict, Optional[T], Union and
\* unrecognized types, inverting the schema fragment and encoding it again
\* gives the same fragment, the number and order of the members of an anyOf
\* included.
C19_SchemaRoundTrip ==
    (pc = "encoded" /\ ret.op = "schema") => ret.again = ret.schema

\* content that is no literal of a numeric or boolean type
NonLiteralText == {"x", "x y"}

\* C20: slot construction failure modes.  Constructing an Output, or
\* coercing a content string to a declared type, fails with MalformedOutput
\* and with no other error kind when the name is not identifier-safe, the
\* type is outside {str, int, float, bool}, or the content is not a literal
\* of the declared type (non-numeric text, one word or several, for an int
\* slot); content "42" for an int slot succeeds.
C20_ConstructionFailureModes ==
    LET a == objs[1]
        badName == a.name # NONE /\ a.name \notin IdentifierNames
        badType == a.type \notin OutputTypes
        badContent == a.content \in NonLiteralText /\ a.type \in {"int", "float", "bool"}
    IN /\ (pc = "built" /\ ret.op = "Output") =>
            /\ (badName \/ badType \/ badContent) => ret.err.kind = "MalformedOutput"
            /\ (~badName /\ a.type = "int" /\ a.content = "42") => ret.err.kind = "none"
       /\ (pc = "coerced" /\ ret.op = "convert") =>
            /\ (badType \/ badContent) => ret.err.kind = "MalformedOutput"
            /\ (a.type = "int" /\ a.content = "42") => ret.err.kind = "none"

\* C21: tool builder.  Prompt(t).tool(f) has the tool map of
\* Prompt(t, tools=[Tool(f)]); a tool(f) call on a prompt that holds no tool
\* named like f succeeds, and the new prompt's tool names are the old ones
\* and f's (so a sequence of tool calls with pairwise distinct names, with
\* output calls in between, ends with exactly those names); on a prompt that
\* holds a tool named like f the call fails with PromptError and makes no
\* Prompt.
C21_ToolBuilder ==
    (pc = "called" /\ ret.op = "tool") =>
        LET p == prompts[ret.on]
            f == ret.arguments
        IN IF f.name \in keys(p.tools)
           THEN ret.err.kind = "PromptError" /\ ret.id = 0 /\ Len(prompts) = 2
           ELSE /\ ret.err.kind = "none"
                /\ ret.id = 3
                /\ Len(prompts) = 3
                /\ keys(prompts[3].tools) = keys(p.tools) \cup {f.name}
                /\ p.tools = <<>> =>
                     prompts[3].tools = Prompt__init__(p.template, p.outputs, <<ToolItem(Tool(f))>>, objs).val.tools

\* the start of the corrective instruction Prompt.error appends
CorrectiveInstruction == <<"\n\nMake sure to avoid the following error in your response: ">>

\* C22: query leaves no trace on the prompt it was called on.  For two
\* consecutive query calls on a prompt (the first one succeeding or
\* exhausting its retries), the text sent on the first attempt of the second
\* call is the text sent on the first attempt of the first call, and it
\* contains no corrective instruction.
C22_QueryLeavesNoTrace ==
    (ret.op = "query" /\ ret.text # <<>> /\ Len(log) >= 1) =>
        /\ log[1].sent = ret.text
        /\ ~Contains(log[1].sent, CorrectiveInstruction)

\* the first query sent a corrected prompt and ended with a validation
\* error; the second one has made its first attempt
C22_Witness ==
    /\ ret.op = "query" /\ ret.text # <<>>
    /\ ret.err.kind \in PrymptErrorKinds
    /\ Len(log) >= 1
    /\ log[1].sent = ret.text

\* the positions of the outputs without a name among names
Unnamed(names) == {k \in 1..Len(names) : names[k] = NONE}

\* C23: unnamed outputs count as duplicates of each other.  Every Prompt
\* declares at most one output without a name, and adding a second one
\* through the constructor, output() or concatenation fails with
\* PromptError.  (Concatenations of prompts that share a tool name are left
\* out: they fail earlier, with ConcatenationError.)
C23_UnnamedOutputsAreDuplicates ==
    /\ \A i \in 1..Len(prompts) : Cardinality(Unnamed(DeclaredNames(i))) <= 1
    /\ (pc = "called" /\ ret.op = "Prompt" /\ Cardinality(Unnamed([k \in 1..Len(ret.arguments) |-> ret.arguments[k].name])) >= 2)
         => ret.err.kind = "PromptError" /\ ret.id = 0
    /\ (pc = "called" /\ ret.op = "output" /\ ret.arguments[1] = NONE /\ Unnamed(DeclaredNames(ret.on)) # {})
         => ret.err.kind = "PromptError" /\ ret.id = 0
    /\ (pc = "called" /\ ret.op = "add" /\ keys(prompts[ret.on].tools) \cap keys(prompts[ret.arguments].tools) = {}
          /\ Unnamed(DeclaredNames(ret.on)) # {} /\ Unnamed(DeclaredNames(ret.arguments)) # {})
         => ret.err.kind = "PromptError" /\ ret.id = 0

\* C24: substitution is complete.  When p(...) succeeds with a value for
\* every free variable of p, then for every choice of values, values that
\* contain placeholder syntax included, the prompt returned reports no free
\* variable, its stringification issues no unresolved-variable warning, and
\* applying it again with no arguments returns a prompt with the same body.
C24_SubstitutionComplete ==
    pc = "checked" =>
        /\ ret.op = "get_variables" => ret.variables = <<>>
        /\ ret.op = "str" => ret.warning = <<>>
        /\ ret.op = "again" => ret.err.kind = "none" /\ prompts[ret.id].template = prompts[ret.on].template
====
